---- MODULE Spec2Model ----
(***************************************************************************)
(* A model of src/maps.py: the terrain pipeline                            *)
(*   generate_terrain -> adjust_terrain -> add_forests.                    *)
(*                                                                         *)
(* Each of the three functions is modelled as its own state machine        *)
(* (SpecGenerate, SpecAdjust, SpecForest): the variables are the locals of *)
(* the function, pc is the position in its body.                           *)
(*                                                                         *)
(* Units.  Elevations are metres (integers).  A noise value is an integer  *)
(* number of thousandths (snoise2 returning -0.475 is -475).               *)
(* A probability and a draw of random.random() are integer numbers of      *)
(* thousandths as well (1.0 is 1000, 0.1 is 100).                          *)
(***************************************************************************)
EXTENDS Integers, Sequences, FiniteSets

VARIABLES
    pc,                    \* position in the function being run
    terrain,               \* the grid `terrain` of the function being run
    i, j,                  \* generate_terrain: the loop indices
    noise_value,           \* generate_terrain: line 44, the last value sampled
    populated,             \* history: the cells generate_terrain has written
    adjusted_terrain,      \* adjust_terrain: the copy being rewritten
    elevation,             \* adjust_terrain: the loop variable of line 73
    current_value,         \* adjust_terrain: line 71
    increment,             \* adjust_terrain: line 72
    desired_forest_count,  \* add_forests: the argument
    current_forest_count,  \* add_forests: line 111
    forest_map,            \* add_forests: line 83
    queue,                 \* propagate_forest: line 92
    x, y,                  \* the cell drawn (line 114) or dequeued (line 96)
    k,                     \* propagate_forest: index into adjacent_cells(x, y)
    prob,                  \* propagate_forest: the local prob
    accepted               \* history: neighbours accepted in the running patch

vars == <<pc, terrain, i, j, noise_value, populated, adjusted_terrain, elevation, current_value,
          increment, desired_forest_count, current_forest_count, forest_map,
          queue, x, y, k, prob, accepted>>

genVars == <<i, j, noise_value, populated>>
adjVars == <<adjusted_terrain, elevation, current_value, increment>>
forestVars == <<desired_forest_count, current_forest_count, forest_map,
                queue, x, y, k, prob, accepted>>

NoValue == "none"

----------------------------------------------------------------------------
(* generate_terrain                                                        *)

\* The grid of generate_terrain (200 x 200 in the source, line 11).
width == 2
height == 2

ElevationMin == -500
ElevationMax == 1500
Step == 50

Cells == (0 .. width - 1) \X (0 .. height - 1)

\* Values snoise2 may return, in thousandths: the ends of the nominal range,
\* values beyond it, values whose elevation is exactly halfway between two
\* steps (-525, -475, -425, -375 give -25, 25, 75, 125 m) and values off the
\* halfway points (-490, -410 give 10, 90 m).
NoiseSamples == {-1100, -1000, -525, -490, -475, -425, -410, -375, 1000, 1100}

\* normalized_value = (noise_value + 1) / 2, in units of 1/2000.
Normalize(n) == n + 1000

\* np.interp(v, [0, 1], [-500, 1500]) for v in units of 1/2000: linear between
\* the two points, and the end value outside them.
InterpUnclamped(v) == ElevationMin + (v * (ElevationMax - ElevationMin)) \div 2000

Interp(v) ==
    IF v <= 0 THEN ElevationMin
    ELSE IF v >= 2000 THEN ElevationMax
    ELSE ElevationMin + (v * (ElevationMax - ElevationMin)) \div 2000

\* round(n / d) rounding a tie away from zero (not what Python does).
RoundHalfAway(n, d) ==
    LET q == n \div d
        r == n % d
    IN  IF 2 * r < d THEN q
        ELSE IF 2 * r > d THEN q + 1
        ELSE IF q >= 0 THEN q + 1 ELSE q

\* Python's round(n / d) for d > 0: to the nearest integer, a tie to the even
\* one.  \div is the floor and % the non-negative remainder.
Round(n, d) ==
    LET q == n \div d
        r == n % d
    IN  IF 2 * r < d THEN q
        ELSE IF 2 * r > d THEN q + 1
        ELSE IF q % 2 = 0 THEN q ELSE q + 1

\* Lines 46-50: the elevation stored for one noise value.
Quantize(e) == Round(e, Step) * Step

\* The elevation before quantization (lines 46-49).
RawElevation(n) == Interp(Normalize(n))

CellElevation(n) == Quantize(RawElevation(n))

ZeroGrid(cells) == [c \in cells |-> 0]

InitGenerate ==
    /\ pc = "generate"
    /\ terrain = ZeroGrid(Cells)
    /\ i = 0
    /\ j = 0
    /\ noise_value = NoValue
    /\ populated = {}
    /\ adjusted_terrain = NoValue
    /\ elevation = NoValue
    /\ current_value = NoValue
    /\ increment = NoValue
    /\ desired_forest_count = NoValue
    /\ current_forest_count = NoValue
    /\ forest_map = NoValue
    /\ queue = NoValue
    /\ x = NoValue
    /\ y = NoValue
    /\ k = NoValue
    /\ prob = NoValue
    /\ accepted = NoValue

\* One pass of the body of the two loops (lines 41-51).
GenerateCell ==
    /\ pc = "generate"
    /\ i < width
    /\ \E n \in NoiseSamples :
           /\ noise_value' = n
           /\ terrain' = [terrain EXCEPT ![<<i, j>>] = CellElevation(n)]
    /\ populated' = populated \cup {<<i, j>>}
    /\ IF j + 1 < height
         THEN /\ j' = j + 1
              /\ i' = i
         ELSE /\ j' = 0
              /\ i' = i + 1
    /\ pc' = pc
    /\ UNCHANGED <<adjVars, forestVars>>

\* Line 52.
GenerateReturn ==
    /\ pc = "generate"
    /\ i = width
    /\ pc' = "generated"
    /\ UNCHANGED <<terrain, genVars, adjVars, forestVars>>

NextGenerate == GenerateCell \/ GenerateReturn

SpecGenerate == InitGenerate /\ [][NextGenerate]_vars

----------------------------------------------------------------------------
(* adjust_terrain                                                          *)

\* The number of cells of the array handed to adjust_terrain.  Its boolean-mask
\* assignments act on each cell alone, whatever the shape, so the array is
\* modelled flat.
NumCells == 2

Flat == 1 .. NumCells

\* The values generate_terrain produces (line 13: -500, -450, ..., 1500).
Elevations == {e \in ElevationMin .. ElevationMax : e % Step = 0}

LoopStart == 450
LoopStop == 1501
FirstValue == 4
FirstIncrement == 4
IncrementGrowth == 5

\* a[(a >= lo) & (a <= hi)] = v
AssignWindow(a, lo, hi, v) ==
    [c \in DOMAIN a |-> IF a[c] >= lo /\ a[c] <= hi THEN v ELSE a[c]]

\* a[a < bound] = v
AssignBelow(a, bound, v) ==
    [c \in DOMAIN a |-> IF a[c] < bound THEN v ELSE a[c]]

\* a[a == e] = v
AssignEqual(a, e, v) ==
    [c \in DOMAIN a |-> IF a[c] = e THEN v ELSE a[c]]

\* Line 62 without its lower bound.
Band1NoLowerBound(a) == AssignBelow(a, 201, 1)

\* Line 62.
Band1(a) == AssignWindow(a, 50, 200, 1)

\* Line 65.
Band2(a) == AssignWindow(a, 250, 300, 2)

\* Line 68 writing the 30 of its comment.
Band3Thirty(a) == AssignWindow(a, 350, 400, 30)

\* Line 68.
Band3(a) == AssignWindow(a, 350, 400, 3)

\* Line 76 with the growth of the increment left out.
NextIncrementFlat(inc) == inc

\* Line 76.
NextIncrement(inc) == inc + IncrementGrowth

\* Line 59.
BelowZero(a) == AssignBelow(a, 0, 0)

InitAdjust ==
    /\ pc = "copy"
    /\ terrain \in [Flat -> Elevations]
    /\ adjusted_terrain = NoValue
    /\ elevation = NoValue
    /\ current_value = NoValue
    /\ increment = NoValue
    /\ i = NoValue
    /\ j = NoValue
    /\ noise_value = NoValue
    /\ populated = NoValue
    /\ desired_forest_count = NoValue
    /\ current_forest_count = NoValue
    /\ forest_map = NoValue
    /\ queue = NoValue
    /\ x = NoValue
    /\ y = NoValue
    /\ k = NoValue
    /\ prob = NoValue
    /\ accepted = NoValue

\* Line 56.
AdjustCopy ==
    /\ pc = "copy"
    /\ adjusted_terrain' = terrain
    /\ pc' = "below_zero"
    /\ UNCHANGED <<terrain, elevation, current_value, increment, genVars, forestVars>>

\* Line 59.
AdjustBelowZero ==
    /\ pc = "below_zero"
    /\ adjusted_terrain' = BelowZero(adjusted_terrain)
    /\ pc' = "band1"
    /\ UNCHANGED <<terrain, elevation, current_value, increment, genVars, forestVars>>

\* Line 62.
AdjustBand1 ==
    /\ pc = "band1"
    /\ adjusted_terrain' = Band1(adjusted_terrain)
    /\ pc' = "band2"
    /\ UNCHANGED <<terrain, elevation, current_value, increment, genVars, forestVars>>

\* Line 65.
AdjustBand2 ==
    /\ pc = "band2"
    /\ adjusted_terrain' = Band2(adjusted_terrain)
    /\ pc' = "band3"
    /\ UNCHANGED <<terrain, elevation, current_value, increment, genVars, forestVars>>

\* Line 68.
AdjustBand3 ==
    /\ pc = "band3"
    /\ adjusted_terrain' = Band3(adjusted_terrain)
    /\ pc' = "loop_init"
    /\ UNCHANGED <<terrain, elevation, current_value, increment, genVars, forestVars>>

\* Lines 71-73: the loop's variables before its first pass.
AdjustLoopInit ==
    /\ pc = "loop_init"
    /\ current_value' = FirstValue
    /\ increment' = FirstIncrement
    /\ elevation' = LoopStart
    /\ pc' = "loop"
    /\ UNCHANGED <<terrain, adjusted_terrain, genVars, forestVars>>

\* Lines 73-76: one pass of the loop over range(450, 1501, 50).
AdjustLoopPass ==
    /\ pc = "loop"
    /\ elevation < LoopStop
    /\ adjusted_terrain' = AssignEqual(adjusted_terrain, elevation, current_value)
    /\ current_value' = current_value + increment
    /\ increment' = NextIncrement(increment)
    /\ elevation' = elevation + Step
    /\ pc' = pc
    /\ UNCHANGED <<terrain, genVars, forestVars>>

\* Line 78.
AdjustReturn ==
    /\ pc = "loop"
    /\ elevation >= LoopStop
    /\ pc' = "adjusted"
    /\ UNCHANGED <<terrain, adjVars, genVars, forestVars>>

NextAdjust ==
    \/ AdjustCopy
    \/ AdjustBelowZero
    \/ AdjustBand1
    \/ AdjustBand2
    \/ AdjustBand3
    \/ AdjustLoopInit
    \/ AdjustLoopPass
    \/ AdjustReturn

SpecAdjust == InitAdjust /\ [][NextAdjust]_vars

----------------------------------------------------------------------------
(* add_forests and its local function propagate_forest                     *)

\* terrain.shape of the band grid handed to add_forests (line 82).  Every
\* grid of that shape is tried, so the grid is grown along its first axis
\* only and the second stays at 2.
forest_width == 2
forest_height == 2

\* The largest desired_forest_count tried.
MaxForests == 2

ForestCells == (0 .. forest_width - 1) \X (0 .. forest_height - 1)

\* Band identifiers found on the grids tried: water, the two vegetation
\* bands, and one band above them.
Bands == {0, 1, 2, 3}

\* Values random.random() may return, in thousandths of [0, 1): below 0.09,
\* between 0.09 and 0.1, and between 0.9 and 1.0.
Draws == {50, 95, 950}

\* The default of the parameter spawn_probability (line 81), in thousandths.
spawn_probability == 100

\* Lines 85-86.
in_bounds(cx, cy) == 0 <= cx /\ cx < forest_width /\ 0 <= cy /\ cy < forest_height

\* Lines 88-89.
adjacent_cells(cx, cy) ==
    <<(<<cx - 1, cy>>), (<<cx + 1, cy>>), (<<cx, cy - 1>>), (<<cx, cy + 1>>)>>

\* `in [1, 2]` taking every band above water.
EligibleAboveWater(band) == band >= 1

\* `in [1, 2]` taking water too.
EligibleWithWater(band) == band \in {0, 1, 2}

\* Lines 100 and 116: terrain[...] in [1, 2].
Eligible(band) == band \in {1, 2}

\* Lines 101-104 with 0.9 for the 1.0 of band 1.
BaseProbLow(band) == IF band = 1 THEN 900 ELSE 100

\* Lines 101-104: the value prob is set to for a neighbour of that band.
BaseProb(band) == IF band = 1 THEN 1000 ELSE 100

\* Line 109: prob *= 0.9.
Decay(p) == (p * 9) \div 10

\* Line 113 taking <= for <.
LoopContinuesInclusive(current, desired) == current <= desired

\* Line 113: the condition of the main loop.
LoopContinues(current, desired) == current < desired

\* The neighbour the for loop of line 98 is at.
Neighbour == adjacent_cells(x, y)[k]

InitForest ==
    /\ pc = "loop"
    /\ terrain \in [ForestCells -> Bands]
    /\ desired_forest_count \in 0 .. MaxForests
    /\ current_forest_count = 0
    /\ forest_map = ZeroGrid(ForestCells)
    /\ queue = <<>>
    /\ x = NoValue
    /\ y = NoValue
    /\ k = NoValue
    /\ prob = NoValue
    /\ accepted = 0
    /\ i = NoValue
    /\ j = NoValue
    /\ noise_value = NoValue
    /\ populated = NoValue
    /\ adjusted_terrain = NoValue
    /\ elevation = NoValue
    /\ current_value = NoValue
    /\ increment = NoValue

\* Lines 113-117, a pass that starts no patch: the cell drawn is not eligible,
\* or is forested, or the spawn draw fails.
RetryDraw ==
    /\ pc = "loop"
    /\ LoopContinues(current_forest_count, desired_forest_count)
    /\ \E cx \in 0 .. forest_width - 1, cy \in 0 .. forest_height - 1, r \in Draws :
           ~ (/\ Eligible(terrain[<<cx, cy>>])
              /\ forest_map[<<cx, cy>>] = 0
              /\ r < spawn_probability)
    /\ UNCHANGED vars

\* Lines 113-118 and 92-93: the cell drawn passes the tests of lines 116 and
\* 117, and propagate_forest starts on it.
SpawnPatch ==
    /\ pc = "loop"
    /\ LoopContinues(current_forest_count, desired_forest_count)
    /\ \E cx \in 0 .. forest_width - 1, cy \in 0 .. forest_height - 1, r \in Draws :
           /\ Eligible(terrain[<<cx, cy>>])
           /\ forest_map[<<cx, cy>>] = 0
           /\ r < spawn_probability
           /\ queue' = <<(<<cx, cy>>)>>
           /\ forest_map' = [forest_map EXCEPT ![<<cx, cy>>] = 1]
    /\ accepted' = 0
    /\ pc' = "pop"
    /\ UNCHANGED <<terrain, desired_forest_count, current_forest_count,
                   x, y, k, prob, genVars, adjVars>>

\* Lines 95-96: the queue is not empty.
Pop ==
    /\ pc = "pop"
    /\ queue # <<>>
    /\ x' = Head(queue)[1]
    /\ y' = Head(queue)[2]
    /\ queue' = Tail(queue)
    /\ k' = 1
    /\ pc' = "neighbour"
    /\ UNCHANGED <<terrain, desired_forest_count, current_forest_count,
                   forest_map, prob, accepted, genVars, adjVars>>

\* Line 95 with the queue empty: propagate_forest returns, then line 119.
PatchDone ==
    /\ pc = "pop"
    /\ queue = <<>>
    /\ current_forest_count' = current_forest_count + 1
    /\ x' = NoValue
    /\ y' = NoValue
    /\ k' = NoValue
    /\ prob' = NoValue
    /\ pc' = "loop"
    /\ UNCHANGED <<terrain, desired_forest_count, forest_map, queue, accepted,
                   genVars, adjVars>>

\* Line 98 going on to the next neighbour, or back to line 95 after the last.
Advance ==
    IF k < Len(adjacent_cells(x, y))
      THEN /\ k' = k + 1
           /\ pc' = "neighbour"
      ELSE /\ k' = k
           /\ pc' = "pop"

\* Lines 98-100 failing: the neighbour is out of bounds, forested or not
\* eligible.
SkipNeighbour ==
    /\ pc = "neighbour"
    /\ ~ (/\ in_bounds(Neighbour[1], Neighbour[2])
          /\ forest_map[Neighbour] = 0
          /\ Eligible(terrain[Neighbour]))
    /\ Advance
    /\ UNCHANGED <<terrain, desired_forest_count, current_forest_count,
                   forest_map, queue, x, y, prob, accepted, genVars, adjVars>>

\* Lines 98-104: the neighbour passes the tests and prob is set for it.
SetProb ==
    /\ pc = "neighbour"
    /\ in_bounds(Neighbour[1], Neighbour[2])
    /\ forest_map[Neighbour] = 0
    /\ Eligible(terrain[Neighbour])
    /\ prob' = BaseProb(terrain[Neighbour])
    /\ pc' = "test"
    /\ UNCHANGED <<terrain, desired_forest_count, current_forest_count,
                   forest_map, queue, x, y, k, accepted, genVars, adjVars>>

\* Lines 106-109 with the draw below prob.
Accept ==
    /\ pc = "test"
    /\ \E r \in Draws : r < prob
    /\ forest_map' = [forest_map EXCEPT ![Neighbour] = 1]
    /\ queue' = Append(queue, Neighbour)
    /\ prob' = Decay(prob)
    /\ accepted' = accepted + 1
    /\ Advance
    /\ UNCHANGED <<terrain, desired_forest_count, current_forest_count,
                   x, y, genVars, adjVars>>

\* Line 106 with the draw not below prob.
Reject ==
    /\ pc = "test"
    /\ \E r \in Draws : ~ (r < prob)
    /\ Advance
    /\ UNCHANGED <<terrain, desired_forest_count, current_forest_count,
                   forest_map, queue, x, y, prob, accepted, genVars, adjVars>>

\* Lines 113 and 121: the loop's condition fails and add_forests returns.
ForestReturn ==
    /\ pc = "loop"
    /\ ~ LoopContinues(current_forest_count, desired_forest_count)
    /\ pc' = "forested"
    /\ UNCHANGED <<terrain, forestVars, genVars, adjVars>>

NextForest ==
    \/ RetryDraw
    \/ SpawnPatch
    \/ Pop
    \/ PatchDone
    \/ SkipNeighbour
    \/ SetProb
    \/ Accept
    \/ Reject
    \/ ForestReturn

SpecForest == InitForest /\ [][NextForest]_vars

----------------------------------------------------------------------------
(* Properties of add_forests                                               *)

ForestedCells == {c \in ForestCells : forest_map[c] = 1}

\* The in-bounds 4-neighbours of a cell.
NeighboursOf(c) ==
    {n \in ForestCells : \E m \in 1 .. 4 : adjacent_cells(c[1], c[2])[m] = n}

\* No cell is both in band 1 or 2 and unforested.
Exhausted == \A c \in ForestCells : terrain[c] \in {1, 2} => forest_map[c] = 1

\* C1: at every point of add_forests, seed placement and every step of
\* propagate_forest included, and in the grid returned, a forested cell has
\* band 1 or 2.
C1_ForestOnlyOnVegetation ==
    \A c \in ForestCells : forest_map[c] = 1 => terrain[c] \in {1, 2}

\* C1 witness: add_forests has returned a forest of two cells or more that
\* touches a cell of band 3 and a cell of band 0.
C1_Witness ==
    /\ pc = "forested"
    /\ Cardinality(ForestedCells) >= 2
    /\ \E c \in ForestedCells : \E n \in NeighboursOf(c) : terrain[n] = 3
    /\ \E c \in ForestedCells : \E n \in NeighboursOf(c) : terrain[n] = 0

\* C2, the states: add_forests has returned only with the count equal to the
\* count asked for; at the loop's test with the two equal, returning is the
\* only step; at the loop's test with the count short and no eligible
\* unforested cell, the loop goes on drawing and no step changes anything.
C2_State ==
    /\ pc = "forested" => current_forest_count = desired_forest_count
    /\ (pc = "loop" /\ current_forest_count = desired_forest_count)
          => /\ ENABLED ForestReturn
             /\ ~ ENABLED SpawnPatch
             /\ ~ ENABLED RetryDraw
    /\ (pc = "loop" /\ current_forest_count < desired_forest_count /\ Exhausted)
          => /\ ENABLED RetryDraw
             /\ ~ ENABLED <<NextForest>>_vars

\* C2, the steps: the count changes only when a patch ends, by one; starting a
\* patch leaves it alone; the return happens from the loop's test with the two
\* counts equal.
C2_Step ==
    /\ current_forest_count' # current_forest_count
          => /\ current_forest_count' = current_forest_count + 1
             /\ pc = "pop" /\ queue = <<>> /\ pc' = "loop"
    /\ (pc = "pop" /\ pc' = "loop")
          => current_forest_count' = current_forest_count + 1
    /\ pc' = "forested"
          => /\ pc = "loop"
             /\ current_forest_count = desired_forest_count
    /\ desired_forest_count' = desired_forest_count

\* C2: the main loop of add_forests ends exactly when current_forest_count
\* equals desired_forest_count, with one increment per patch, and from its
\* test with the count short and the eligible cells used up it never returns.
C2_LoopEndsOnCountOnly == [] C2_State /\ [][C2_Step]_vars

\* C2 witness: at the loop's test after a patch, one more patch wanted, and
\* every eligible cell forested.
C2_Witness ==
    /\ pc = "loop"
    /\ current_forest_count = 1
    /\ desired_forest_count = 2
    /\ Exhausted

\* The scenario of C3 on cell c: one forest asked for, c is the only cell of
\* band 1, its neighbours are water, and no other cell is eligible.
C3_Scenario(c) ==
    /\ desired_forest_count = 1
    /\ terrain[c] = 1
    /\ \A n \in NeighboursOf(c) : terrain[n] = 0
    /\ \A d \in ForestCells \ {c} : terrain[d] \notin {1, 2}

\* C3: in that scenario only c is ever forested, the queue never holds
\* anything but c, no neighbour is accepted or tested, and on return exactly
\* c is forested.
C3_LoneCellPatch ==
    \A c \in ForestCells :
        C3_Scenario(c) =>
            /\ ForestedCells \subseteq {c}
            /\ queue \in {<<>>, <<c>>}
            /\ accepted = 0
            /\ pc # "test"
            /\ pc = "forested" => ForestedCells = {c}

\* C3 witness: the scenario, returned, with the lone cell forested.
C3_Witness ==
    \E c \in ForestCells :
        /\ C3_Scenario(c)
        /\ pc = "forested"
        /\ forest_map[c] = 1
        /\ current_forest_count = 1

\* C8 as claimed: once a neighbour has been accepted in the running patch, the
\* probability a later neighbour is tested against is below the base value of
\* its band.
C8_DecayReachesLaterTests ==
    (pc = "test" /\ accepted >= 1) => prob < BaseProb(terrain[Neighbour])

\* Whenever propagate_forest has emptied its queue or is not running.
PatchFinished == pc \in {"loop", "forested"} \/ (pc = "pop" /\ queue = <<>>)

----------------------------------------------------------------------------
(* Properties of generate_terrain                                          *)

\* The cell written by the last pass of the loops.
LastCell == IF j > 0 THEN <<i, j - 1>> ELSE <<i - 1, height - 1>>

\* The elevation of the last pass before quantization.
LastRaw == RawElevation(noise_value)

\* An elevation exactly halfway between two steps.
IsTie(e) == e % Step = 25

\* C4: every elevation stored is a multiple of 50 in [-500, 1500], whatever
\* the noise value, and on return every cell of the grid has been written.
C4_ElevationsOnTheSteps ==
    /\ DOMAIN terrain = Cells
    /\ \A c \in Cells :
           /\ terrain[c] % 50 = 0
           /\ terrain[c] >= -500
           /\ terrain[c] <= 1500
    /\ pc = "generated" => populated = Cells

\* C4 witness: returned, the last noise value beyond 1, the first cell at the
\* bottom of the range and the last at its top.
C4_Witness ==
    /\ pc = "generated"
    /\ noise_value = 1100
    /\ terrain[<<0, 0>>] = -500
    /\ terrain[LastCell] = 1500

\* C9 as claimed: a halfway elevation is stored as the step of larger
\* magnitude.
C9_TiesAwayFromZero ==
    (populated # {} /\ IsTie(LastRaw)) =>
        terrain[LastCell] = (IF LastRaw > 0 THEN LastRaw + 25 ELSE LastRaw - 25)

\* C9 amended: the elevation stored is the nearest multiple of 50, and for a
\* halfway elevation the neighbouring multiple whose quotient by 50 is even.
C9_TiesToEven ==
    populated # {} =>
        /\ terrain[LastCell] - LastRaw <= 25
        /\ LastRaw - terrain[LastCell] <= 25
        /\ IsTie(LastRaw) => (terrain[LastCell] \div Step) % 2 = 0

\* C9 witness: 125 m, halfway between 100 and 150, has been stored as 100.
C9_Witness ==
    /\ populated # {}
    /\ noise_value = -375
    /\ LastRaw = 125
    /\ terrain[LastCell] = 100

----------------------------------------------------------------------------
(* Properties of adjust_terrain                                            *)

\* The identifier the accelerating-step formula gives the m-th elevation of
\* 450, 500, ..., 1500 (m from 0): 4, then steps of 4, 9, 14, ...
StepFormula(m) == 4 + 4 * m + (5 * m * (m - 1)) \div 2

BandIds == {0, 1, 2, 3} \cup {StepFormula(m) : m \in 0 .. 21}

\* C5: on return, of two cells the one with the lower elevation has the band
\* that is lower or equal.
C5_Monotonic ==
    pc = "adjusted" =>
        \A a, b \in Flat :
            terrain[a] < terrain[b] => adjusted_terrain[a] <= adjusted_terrain[b]

\* C5 witness: 600 m and 650 m have become bands 31 and 50.
C5_Witness ==
    /\ pc = "adjusted"
    /\ terrain[1] = 600 /\ adjusted_terrain[1] = 31
    /\ terrain[2] = 650 /\ adjusted_terrain[2] = 50

\* C6: on return 450 m has band 4, and two elevations 450 + 50m and
\* 450 + 50(m + 1) have bands 4 + 5m apart.
C6_AcceleratingSteps ==
    pc = "adjusted" =>
        \A a, b \in Flat :
            /\ terrain[a] = 450 => adjusted_terrain[a] = 4
            /\ (terrain[a] >= 450 /\ terrain[b] = terrain[a] + 50)
                  => /\ adjusted_terrain[b] - adjusted_terrain[a]
                            = 4 + 5 * ((terrain[a] - 450) \div 50)
                     /\ adjusted_terrain[b] > adjusted_terrain[a]

\* C6 witness: the last step, 1450 m to 1500 m, is 104 wide.
C6_Witness ==
    /\ pc = "adjusted"
    /\ terrain[1] = 1450
    /\ terrain[2] = 1500
    /\ adjusted_terrain[2] - adjusted_terrain[1] = 104

\* C7, the steps: a rule rewrites a cell only while the cell still holds its
\* elevation, and leaves it holding something else; so no cell is rewritten
\* twice.
C7_Step ==
    pc # "copy" =>
        \A c \in Flat :
            adjusted_terrain'[c] # adjusted_terrain[c]
                => /\ adjusted_terrain[c] = terrain[c]
                   /\ adjusted_terrain'[c] # terrain[c]

\* C7, the result: every cell holds a band identifier, and the only cell no
\* rule rewrote is one at 0 m, which is band 0 as it stands.
C7_Result ==
    pc = "adjusted" =>
        \A c \in Flat :
            /\ adjusted_terrain[c] \in BandIds
            /\ adjusted_terrain[c] = terrain[c] => terrain[c] = 0

\* C7: every multiple of 50 in [-500, 1500] ends as one band: at most one rule
\* rewrites a cell, a band written is never rewritten by a later rule or a
\* later pass of the loop, and no cell is left holding an elevation that is
\* not a band.
C7_ExactlyOneBand == [] C7_Result /\ [][C7_Step]_vars

\* C7 witness: 650 m has become band 50, which is also an elevation of the
\* band-1 window, and -50 m has become band 0.
C7_Witness ==
    /\ pc = "adjusted"
    /\ terrain[1] = 650 /\ adjusted_terrain[1] = 50
    /\ terrain[2] = -50 /\ adjusted_terrain[2] = 0

====
